---- MODULE Spec2Model ----
(***************************************************************************)
(* A model of the recursive-descent JSON parser of src/src/jsonParser.ts.  *)
(*                                                                         *)
(* The parser object holds three fields (input, length, pos).  One call   *)
(* of parse() is modelled small-step: every assignment to pos is a step   *)
(* of its own, so that the cursor can be observed between any two of      *)
(* them.  Characters are UTF-16 code units (naturals), strings are        *)
(* sequences of code units, and a cursor value p addresses input[p + 1].  *)
(***************************************************************************)
EXTENDS Integers, Sequences, FiniteSets, TLC

VARIABLES input, length, pos, pc, calls, frames, result, start, retval, error, outcomes

vars == <<input, length, pos, pc, calls, frames, result, start, retval, error, outcomes>>

(***************************************************************************)
(* Code units the source names as character literals.                      *)
(***************************************************************************)
LBrace == 123
RBrace == 125
LBracket == 91
RBracket == 93
Quote == 34
Backslash == 92
Slash == 47
Comma == 44
Colon == 58
Minus == 45
Plus == 43
Dot == 46
Zero == 48
Nine == 57
Space == 32
Tab == 9
LineFeed == 10
CarriageReturn == 13
Backspace == 8
FormFeed == 12
LowerB == 98
LowerE == 101
UpperE == 69
LowerF == 102
LowerN == 110
LowerR == 114
LowerT == 116
LowerU == 117
LowerA == 97
UpperA == 65
UpperF == 70

TrueText == <<116, 114, 117, 101>>
FalseText == <<102, 97, 108, 115, 101>>
NullText == <<110, 117, 108, 108>>

\* "__proto__", the one property name Object.prototype defines as an accessor
ProtoKey == <<95, 95, 112, 114, 111, 116, 111, 95, 95>>

\* this.input[i] of an index at or past the end is undefined in JavaScript
Undefined == -1

CharAt(s, i) == IF i >= 0 /\ i < Len(s) THEN s[i + 1] ELSE Undefined

Min(a, b) == IF a < b THEN a ELSE b

\* String.prototype.slice(a, b) for 0 <= a: both ends are clamped to the length
Slice(s, a, b) == SubSeq(s, Min(a, Len(s)) + 1, Min(b, Len(s)))

isWhitespace(c) == c = Space \/ c = Tab \/ c = LineFeed \/ c = CarriageReturn

\* char >= '0' && char <= '9' ; undefined compares false with every string
isDigit(c) == c # Undefined /\ c >= Zero /\ c <= Nine

isHexDigit(c) ==
    \/ (c >= Zero /\ c <= Nine)
    \/ (c >= LowerA /\ c <= LowerF)
    \/ (c >= UpperA /\ c <= UpperF)

\* /^[0-9a-fA-F]{4}$/.test(hexCode)
IsHex4(h) == Len(h) = 4 /\ \A i \in 1..4 : isHexDigit(h[i])

HexDigitValue(c) ==
    IF c >= Zero /\ c <= Nine THEN c - Zero
    ELSE IF c >= LowerA /\ c <= LowerF THEN c - LowerA + 10
    ELSE c - UpperA + 10

\* parseInt(hexCode) read without the radix
MutHexCodeUnitDecimal(h) ==
    ((HexDigitValue(h[1]) * 10 + HexDigitValue(h[2])) * 10 + HexDigitValue(h[3])) * 10
        + HexDigitValue(h[4])

\* parseInt(hexCode, 16) of four hex digits; String.fromCharCode keeps it as
\* one code unit (0 .. 65535), surrogates included
HexCodeUnit(h) ==
    ((HexDigitValue(h[1]) * 16 + HexDigitValue(h[2])) * 16 + HexDigitValue(h[3])) * 16
        + HexDigitValue(h[4])

(***************************************************************************)
(* JSONValue (lines 4-16).  Every value is a record whose first field,     *)
(* kind, fixes the shape of val.                                           *)
(***************************************************************************)
UndefinedValue == [kind |-> "undefined", val |-> <<>>]
NullValue == [kind |-> "null", val |-> <<>>]
BooleanValue(b) == [kind |-> "boolean", val |-> b]
StringValue(s) == [kind |-> "string", val |-> s]
NumberValue(n) == [kind |-> "number", val |-> n]
ArrayValue(a) == [kind |-> "array", val |-> a]

\* The prototype an object literal {} starts with
ObjectPrototype == [kind |-> "Object.prototype", val |-> <<>>]

\* const obj: JSONObject = {} : no own property, prototype Object.prototype.
\* own lists the own properties in the order Object.keys / JSON.stringify
\* enumerate them.
EmptyObject == [kind |-> "object", val |-> [own |-> <<>>, proto |-> ObjectPrototype]]

OwnKeys(o) == {o.val.own[i].key : i \in 1..Len(o.val.own)}

HasOwn(o, key) == \E i \in 1..Len(o.val.own) : o.val.own[i].key = key

\* obj[key] for an own property
OwnGet(o, key) ==
    LET i == CHOOSE j \in 1..Len(o.val.own) : o.val.own[j].key = key
    IN  o.val.own[i].value

RECURSIVE DecVal(_)
DecVal(d) ==
    IF d = <<>> THEN 0
    ELSE DecVal(SubSeq(d, 1, Len(d) - 1)) * 10 + (d[Len(d)] - Zero)

\* An array index: the canonical decimal text of an integer (enumerated
\* first, in ascending order, by every engine).  Keys of ten or more
\* digits are outside the inputs checked here.
IsArrayIndex(key) ==
    /\ Len(key) >= 1
    /\ Len(key) <= 9
    /\ \A i \in 1..Len(key) : isDigit(key[i])
    /\ (Len(key) = 1 \/ key[1] # Zero)

\* Creation of a new own property: an array index goes among the array
\* indices in ascending order, any other name goes last.
DefineOwn(own, key, value) ==
    LET entry == [key |-> key, value |-> value]
    IN  IF IsArrayIndex(key)
        THEN LET before == Cardinality({i \in 1..Len(own) :
                                /\ IsArrayIndex(own[i].key)
                                /\ DecVal(own[i].key) < DecVal(key)})
             IN  SubSeq(own, 1, before) \o <<entry>> \o SubSeq(own, before + 1, Len(own))
        ELSE Append(own, entry)

\* Whether an assignment to "__proto__" that finds no own property reaches
\* the accessor of Object.prototype when it walks the prototype chain from p:
\* a null prototype ends the walk, an own data property "__proto__" of a
\* prototype shadows the accessor.
RECURSIVE ReachesProtoSetter(_)
ReachesProtoSetter(p) ==
    IF p.kind = "Object.prototype" THEN TRUE
    ELSE IF p.kind = "null" THEN FALSE
    ELSE IF p.kind = "array" THEN TRUE
    ELSE IF HasOwn(p, ProtoKey) THEN FALSE
    ELSE ReachesProtoSetter(p.val.proto)

\* obj[key] = value on an ordinary object (line 139): an own property is
\* overwritten in place; "__proto__" without an own property runs the
\* inherited setter, which replaces the prototype when value is an object,
\* an array or null, does nothing otherwise, and never creates a property;
\* any other name becomes a new own property.
ObjSet(o, key, value) ==
    IF HasOwn(o, key)
    THEN [o EXCEPT !.val.own =
            [i \in 1..Len(o.val.own) |->
                IF o.val.own[i].key = key
                THEN [key |-> key, value |-> value]
                ELSE o.val.own[i]]]
    ELSE IF key = ProtoKey /\ ReachesProtoSetter(o.val.proto)
    THEN IF value.kind \in {"object", "array", "null"}
         THEN [o EXCEPT !.val.proto = value]
         ELSE o
    ELSE [o EXCEPT !.val.own = DefineOwn(o.val.own, key, value)]

(***************************************************************************)
(* Number(numberStr) and Number.isFinite (lines 304-309), for a text that  *)
(* has passed the grammar checks of parseNumber.  The value is the exact   *)
(* decimal: sign, significant digits without leading or trailing zeros,    *)
(* and the decimal exponent of the first significant digit.  That is the   *)
(* double Number() returns as long as the text has at most 15 significant  *)
(* digits and lies in the normal range; rounding inside the subnormal      *)
(* range is outside the inputs checked here.                               *)
(***************************************************************************)
FirstIndex(s, chars) ==
    LET hits == {i \in 1..Len(s) : s[i] \in chars}
    IN  IF hits = {} THEN 0 ELSE CHOOSE i \in hits : \A j \in hits : i <= j

LastIndex(s, chars) ==
    LET hits == {i \in 1..Len(s) : s[i] \in chars}
    IN  IF hits = {} THEN 0 ELSE CHOOSE i \in hits : \A j \in hits : i >= j

ExponentMarks == {LowerE, UpperE}
NonZeroDigits == (Zero + 1)..Nine

\* The digits of the largest finite double's rounding boundary,
\* 2^1024 - 2^970 = 1.7976931348623158079...e308
OverflowBoundary == <<1, 7, 9, 7, 6, 9, 3, 1, 3, 4, 8, 6, 2, 3, 1, 5, 8, 0, 7, 9>>
OverflowExponent == 308
UnderflowExponent == -324

\* Exponents of five or more significant digits all overflow or underflow
HugeExponent == 99999

ExponentValue(digits) ==
    LET nz == FirstIndex(digits, NonZeroDigits)
        sig == IF nz = 0 THEN <<>> ELSE SubSeq(digits, nz, Len(digits))
    IN  IF Len(sig) > 4 THEN HugeExponent ELSE DecVal(sig)

PadDigit(sig, i) == IF i <= Len(sig) THEN sig[i] - Zero ELSE 0

AtLeastBoundary(sig) ==
    LET diff == {i \in 1..Len(OverflowBoundary) : PadDigit(sig, i) # OverflowBoundary[i]}
    IN  IF diff = {} THEN TRUE
        ELSE LET i == CHOOSE k \in diff : \A j \in diff : k <= j
             IN  PadDigit(sig, i) > OverflowBoundary[i]

Infinity == [neg |-> FALSE, sig |-> <<>>, exp |-> HugeExponent]

NumberOf(text) ==
    LET neg == CharAt(text, 0) = Minus
        body == IF neg THEN Tail(text) ELSE text
        e == FirstIndex(body, ExponentMarks)
        mant == IF e = 0 THEN body ELSE SubSeq(body, 1, e - 1)
        expText == IF e = 0 THEN <<>> ELSE SubSeq(body, e + 1, Len(body))
        expNeg == CharAt(expText, 0) = Minus
        expDigits == IF CharAt(expText, 0) \in {Minus, Plus} THEN Tail(expText) ELSE expText
        expVal == IF expNeg THEN 0 - ExponentValue(expDigits) ELSE ExponentValue(expDigits)
        d == FirstIndex(mant, {Dot})
        intDigits == IF d = 0 THEN mant ELSE SubSeq(mant, 1, d - 1)
        fracDigits == IF d = 0 THEN <<>> ELSE SubSeq(mant, d + 1, Len(mant))
        digits == intDigits \o fracDigits
        k == FirstIndex(digits, NonZeroDigits)
        z == LastIndex(digits, NonZeroDigits)
        sig == IF k = 0 THEN <<>> ELSE SubSeq(digits, k, z)
        exp == Len(intDigits) - k + expVal
    IN  IF k = 0 \/ exp < UnderflowExponent
        THEN [neg |-> neg, sig |-> <<>>, exp |-> 0]
        ELSE IF exp > OverflowExponent \/ (exp = OverflowExponent /\ AtLeastBoundary(sig))
        THEN [Infinity EXCEPT !.neg = neg]
        ELSE [neg |-> neg, sig |-> sig, exp |-> exp]

\* Number.isFinite(number)
IsFinite(n) == n.exp # HugeExponent

(***************************************************************************)
(* The state of one parser object and of the call of parse() in progress.  *)
(*   input, length, pos : the fields of JSONParser (lines 29-31)           *)
(*   pc      : the statement the call has reached ("idle" before the first *)
(*             call, "done" after a call has returned or thrown)           *)
(*   calls   : the return addresses of the routines that are active        *)
(*   frames  : the locals obj / arr / key / first of the active            *)
(*             parseObject and parseArray calls, innermost first           *)
(*   result  : parseString's local result                                  *)
(*   start   : parseNumber's local start                                   *)
(*   retval  : the value the routine that returned last has returned       *)
(*   error   : the JSONParseError thrown, if any                           *)
(*   outcomes: what each completed call of parse() gave its caller         *)
(* A step is a function from such a record to the next one.                *)
(***************************************************************************)
NoError == [kind |-> "none", position |-> 0]

Returned(v) == [ok |-> TRUE, value |-> v, error |-> NoError]
Threw(e) == [ok |-> FALSE, value |-> UndefinedValue, error |-> e]

NewFrame == [obj |-> EmptyObject, arr |-> <<>>, key |-> <<>>, first |-> TRUE]

\* new JSONParser(text) (lines 29-36)
Constructed(text) ==
    [input |-> text, length |-> Len(text), pos |-> 0, pc |-> "idle",
     calls |-> <<>>, frames |-> <<>>, result |-> <<>>, start |-> 0,
     retval |-> UndefinedValue, error |-> NoError, outcomes |-> <<>>]

Cur(s) == CharAt(s.input, s.pos)
AtEnd(s) == s.pos >= s.length

Goto(s, label) == [s EXCEPT !.pc = label]
Advance(s, n) == [s EXCEPT !.pos = @ + n]
Call(s, routine, ret) == [s EXCEPT !.pc = routine, !.calls = <<ret>> \o @]
ReturnVoid(s) == [s EXCEPT !.pc = Head(s.calls), !.calls = Tail(@)]
Return(s, v) == [ReturnVoid(s) EXCEPT !.retval = v, !.result = <<>>, !.start = 0]
ReturnContainer(s, v) == [Return(s, v) EXCEPT !.frames = Tail(@)]

\* throw new JSONParseError(message, position): the exception unwinds every
\* active routine and leaves parse(); pos keeps its value
Throw(s, kind, position) ==
    LET e == [kind |-> kind, position |-> position]
    IN  [s EXCEPT !.pc = "done", !.calls = <<>>, !.frames = <<>>, !.result = <<>>,
                  !.start = 0, !.retval = UndefinedValue, !.error = e,
                  !.outcomes = Append(@, Threw(e))]

(***************************************************************************)
(* skipWhitespace (lines 338-342): one iteration of its loop, or its exit. *)
(***************************************************************************)
skipWhitespace(s) ==
    IF s.pos < s.length /\ isWhitespace(Cur(s))
    THEN Advance(s, 1)
    ELSE ReturnVoid(s)

(***************************************************************************)
(* parse (lines 41-57)                                                     *)
(***************************************************************************)
\* parse() without this.pos = 0
MutParseNoReset(s) ==
    Call([s EXCEPT !.error = NoError, !.retval = UndefinedValue], "ws", "parse_check")

\* this.pos = 0; this.skipWhitespace()
parse_enter(s) ==
    Call([s EXCEPT !.pos = 0, !.error = NoError, !.retval = UndefinedValue],
         "ws", "parse_check")

\* 'Unexpected end of JSON input' (line 46), else const value = this.parseValue()
parse_check(s) ==
    IF AtEnd(s)
    THEN Throw(s, "UnexpectedEnd", s.pos)
    ELSE Call(s, "value", "parse_trail")

\* this.skipWhitespace() (line 50); value stays in retval
parse_trail(s) == Call(s, "ws", "parse_end")

\* parse() without the check for input left over
MutParseFinishLenient(s) ==
    [s EXCEPT !.pc = "done", !.outcomes = Append(@, Returned(s.retval))]

\* "Unexpected token 'c'" (line 53) for input left over, else return value
parse_finish(s) ==
    IF s.pos < s.length
    THEN Throw(s, "TrailingInput", s.pos)
    ELSE [s EXCEPT !.pc = "done", !.outcomes = Append(@, Returned(s.retval))]

(***************************************************************************)
(* parseValue (lines 59-90).  return this.parseX() hands the caller's      *)
(* return address on to parseX.                                            *)
(***************************************************************************)
parseValue_enter(s) == Call(s, "ws", "value_switch")

parseValue_switch(s) ==
    LET char == Cur(s)
    IN  IF AtEnd(s) THEN Throw(s, "UnexpectedEnd", s.pos)
        ELSE IF char = LBrace THEN Goto(s, "object")
        ELSE IF char = LBracket THEN Goto(s, "array")
        ELSE IF char = Quote THEN Goto(s, "string")
        ELSE IF char = LowerT THEN Goto(s, "true")
        ELSE IF char = LowerF THEN Goto(s, "false")
        ELSE IF char = LowerN THEN Goto(s, "null")
        ELSE IF char = Minus \/ (char >= Zero /\ char <= Nine) THEN Goto(s, "number")
        ELSE Throw(s, "UnexpectedToken", s.pos)

(***************************************************************************)
(* parseObject (lines 92-143)                                              *)
(***************************************************************************)
Frame(s) == Head(s.frames)
SetFrame(s, f) == [s EXCEPT !.frames = <<f>> \o Tail(@)]

\* const obj = {}; this.pos++; this.skipWhitespace()
parseObject_open(s) ==
    Call([Advance(s, 1) EXCEPT !.frames = <<NewFrame>> \o @], "ws", "obj_empty")

\* the empty object (lines 98-101), else let first = true
parseObject_empty(s) ==
    IF s.pos < s.length /\ Cur(s) = RBrace
    THEN ReturnContainer(Advance(s, 1), Frame(s).obj)
    ELSE Goto(s, "obj_loop")

\* while (this.pos < this.length): the loop test, then the skipWhitespace
\* of line 106 (not first) or first = false and that of line 121;
\* 'Unterminated object' (line 142) when the test fails
parseObject_loop(s) ==
    IF s.pos < s.length
    THEN IF ~Frame(s).first
         THEN Call(s, "ws", "obj_separator")
         ELSE Call(SetFrame(s, [Frame(s) EXCEPT !.first = FALSE]), "ws", "obj_key")
    ELSE Throw(s, "UnterminatedObject", s.pos)

\* lines 107-121: end of input, '}', ',' or "Expected ',' or '}'"
parseObject_separator(s) ==
    IF AtEnd(s) THEN Throw(s, "UnexpectedEnd", s.pos)
    ELSE IF Cur(s) = RBrace THEN ReturnContainer(Advance(s, 1), Frame(s).obj)
    ELSE IF Cur(s) # Comma THEN Throw(s, "ExpectedCommaOrBrace", s.pos)
    ELSE Call(Advance(s, 1), "ws", "obj_key")

\* 'Expected string key' (line 125), else const key = this.parseString()
parseObject_key(s) ==
    IF AtEnd(s) \/ Cur(s) # Quote
    THEN Throw(s, "ExpectedStringKey", s.pos)
    ELSE Call(s, "string", "obj_key_done")

\* parseObject without the skipWhitespace between a key and its ':'
MutAfterKeyNoSkip(s) ==
    Goto(SetFrame(s, [Frame(s) EXCEPT !.key = s.retval.val]), "obj_colon")

\* key holds what parseString returned; this.skipWhitespace() (line 129)
parseObject_afterKey(s) ==
    Call(SetFrame(s, [Frame(s) EXCEPT !.key = s.retval.val]), "ws", "obj_colon")

\* "Expected ':' after key" (line 133), else this.pos++ and parseValue()
parseObject_colon(s) ==
    IF AtEnd(s) \/ Cur(s) # Colon
    THEN Throw(s, "ExpectedColon", s.pos)
    ELSE Call(Advance(s, 1), "value", "obj_store")

\* obj[key] = value (line 139), then back to the loop test
parseObject_store(s) ==
    Goto(SetFrame(s, [Frame(s) EXCEPT !.obj = ObjSet(@, Frame(s).key, s.retval)]),
         "obj_loop")

(***************************************************************************)
(* parseArray (lines 145-179)                                              *)
(***************************************************************************)
parseArray_open(s) ==
    Call([Advance(s, 1) EXCEPT !.frames = <<NewFrame>> \o @], "ws", "arr_empty")

parseArray_empty(s) ==
    IF s.pos < s.length /\ Cur(s) = RBracket
    THEN ReturnContainer(Advance(s, 1), ArrayValue(Frame(s).arr))
    ELSE Goto(s, "arr_loop")

\* the loop test; then lines 159-171 (not first) or first = false and
\* parseValue(); 'Unterminated array' (line 178) when the test fails
parseArray_loop(s) ==
    IF s.pos < s.length
    THEN IF ~Frame(s).first
         THEN Call(s, "ws", "arr_separator")
         ELSE Call(SetFrame(s, [Frame(s) EXCEPT !.first = FALSE]), "value", "arr_push")
    ELSE Throw(s, "UnterminatedArray", s.pos)

parseArray_separator(s) ==
    IF AtEnd(s) THEN Throw(s, "UnexpectedEnd", s.pos)
    ELSE IF Cur(s) = RBracket
    THEN ReturnContainer(Advance(s, 1), ArrayValue(Frame(s).arr))
    ELSE IF Cur(s) # Comma THEN Throw(s, "ExpectedCommaOrBracket", s.pos)
    ELSE Call(Advance(s, 1), "value", "arr_push")

\* arr.push(value) (line 175)
parseArray_push(s) ==
    Goto(SetFrame(s, [Frame(s) EXCEPT !.arr = Append(@, s.retval)]), "arr_loop")

(***************************************************************************)
(* parseString (lines 181-251)                                             *)
(***************************************************************************)
\* let result = ''; this.pos++
parseString_open(s) == Goto([Advance(s, 1) EXCEPT !.result = <<>>], "str_loop")

\* one pass of the loop up to the character's own effect: the closing quote,
\* the backslash (this.pos++ of line 194), a control character, or a
\* character taken as it is; 'Unterminated string' when the test fails
parseString_char(s) ==
    LET char == Cur(s)
    IN  IF AtEnd(s) THEN Throw(s, "UnterminatedString", s.pos)
        ELSE IF char = Quote THEN Return(Advance(s, 1), StringValue(s.result))
        ELSE IF char = Backslash THEN Goto(Advance(s, 1), "str_escape")
        ELSE IF char < Space /\ char # Tab
        THEN Throw(s, "UnescapedControlCharacter", s.pos)
        ELSE Goto([s EXCEPT !.result = Append(@, char)], "str_advance")

\* the simple escapes of lines 201-224
EscapeOf(c) ==
    CASE c = Quote -> Quote
      [] c = Backslash -> Backslash
      [] c = Slash -> Slash
      [] c = LowerB -> Backspace
      [] c = LowerF -> FormFeed
      [] c = LowerN -> LineFeed
      [] c = LowerR -> CarriageReturn
      [] c = LowerT -> Tab

\* lines 195-239: the character after the backslash
parseString_escape(s) ==
    LET escapeChar == Cur(s)
        hexCode == Slice(s.input, s.pos + 1, s.pos + 5)
    IN  IF AtEnd(s) THEN Throw(s, "UnterminatedEscape", s.pos)
        ELSE IF escapeChar \in {Quote, Backslash, Slash, LowerB, LowerF, LowerN, LowerR, LowerT}
        THEN Goto([s EXCEPT !.result = Append(@, EscapeOf(escapeChar))], "str_advance")
        ELSE IF escapeChar = LowerU
        THEN IF s.pos + 4 >= s.length
             THEN Throw(s, "InvalidUnicodeEscape", s.pos)
             ELSE IF ~IsHex4(hexCode)
             THEN Throw(s, "InvalidUnicodeEscape", s.pos)
             ELSE Goto([Advance(s, 4) EXCEPT !.result = Append(@, HexCodeUnit(hexCode))],
                       "str_advance")
        ELSE Throw(s, "InvalidEscapeSequence", s.pos)

\* parseString without the this.pos++ that ends the loop body
MutStringNoAdvance(s) == Goto(s, "str_loop")

\* this.pos++ at the end of the loop body (line 247)
parseString_advance(s) == Goto(Advance(s, 1), "str_loop")

(***************************************************************************)
(* parseNumber (lines 253-312)                                             *)
(***************************************************************************)
\* while (this.pos < this.length && this.isDigit(...)) this.pos++ : one
\* iteration, or the exit to the statement that follows the loop
DigitLoop(s, next) ==
    IF s.pos < s.length /\ isDigit(Cur(s)) THEN Advance(s, 1) ELSE Goto(s, next)

\* const start = this.pos; the optional '-' (lines 257-262)
parseNumber_sign(s) ==
    LET t == [s EXCEPT !.start = s.pos]
    IN  IF Cur(s) = Minus
        THEN IF s.pos + 1 >= s.length \/ ~isDigit(CharAt(s.input, s.pos + 1))
             THEN Throw(Advance(t, 1), "InvalidNumberFormat", s.pos + 1)
             ELSE Goto(Advance(t, 1), "num_int")
        ELSE Goto(t, "num_int")

\* parseNumber without the check for a digit after the integer part 0
MutIntegerNoLeadingZeroCheck(s) ==
    IF Cur(s) = Zero THEN Goto(Advance(s, 1), "num_frac")
    ELSE IF isDigit(Cur(s)) THEN Goto(s, "num_int_digits")
    ELSE Throw(s, "InvalidNumberFormat", s.pos)

\* the integer part (lines 265-277): '0' not followed by a digit, or the
\* digit loop of lines 272-274
parseNumber_integer(s) ==
    IF Cur(s) = Zero
    THEN IF s.pos + 1 < s.length /\ isDigit(CharAt(s.input, s.pos + 1))
         THEN Throw(Advance(s, 1), "LeadingZero", s.pos + 1)
         ELSE Goto(Advance(s, 1), "num_frac")
    ELSE IF isDigit(Cur(s)) THEN Goto(s, "num_int_digits")
    ELSE Throw(s, "InvalidNumberFormat", s.pos)

parseNumber_integerDigits(s) == DigitLoop(s, "num_frac")

\* parseNumber raising the missing fraction before it has passed the '.'
MutFractionErrorAtDot(s) ==
    IF s.pos < s.length /\ Cur(s) = Dot
    THEN IF s.pos + 1 >= s.length \/ ~isDigit(CharAt(s.input, s.pos + 1))
         THEN Throw(s, "MissingFractionDigits", s.pos)
         ELSE Goto(Advance(s, 1), "num_frac_digits")
    ELSE Goto(s, "num_exp")

\* the decimal point (lines 280-284)
parseNumber_fraction(s) ==
    IF s.pos < s.length /\ Cur(s) = Dot
    THEN IF s.pos + 1 >= s.length \/ ~isDigit(CharAt(s.input, s.pos + 1))
         THEN Throw(Advance(s, 1), "MissingFractionDigits", s.pos + 1)
         ELSE Goto(Advance(s, 1), "num_frac_digits")
    ELSE Goto(s, "num_exp")

parseNumber_fractionDigits(s) == DigitLoop(s, "num_exp")

\* 'e' or 'E' (lines 291-292)
parseNumber_exponent(s) ==
    IF s.pos < s.length /\ (Cur(s) = LowerE \/ Cur(s) = UpperE)
    THEN Goto(Advance(s, 1), "num_exp_sign")
    ELSE Goto(s, "num_convert")

\* the optional sign of the exponent (lines 293-295)
parseNumber_exponentSign(s) ==
    IF s.pos < s.length /\ (Cur(s) = Plus \/ Cur(s) = Minus)
    THEN Goto(Advance(s, 1), "num_exp_check")
    ELSE Goto(s, "num_exp_check")

\* 'exponent must contain digits' (lines 296-298)
parseNumber_exponentCheck(s) ==
    IF AtEnd(s) \/ ~isDigit(Cur(s))
    THEN Throw(s, "MissingExponentDigits", s.pos)
    ELSE Goto(s, "num_exp_digits")

parseNumber_exponentDigits(s) == DigitLoop(s, "num_convert")

\* lines 304-311: the conversion; an infinite result is reported at start
parseNumber_convert(s) ==
    LET numberStr == Slice(s.input, s.start, s.pos)
        number == NumberOf(numberStr)
    IN  IF ~IsFinite(number)
        THEN Throw(s, "NumberOverflow", s.start)
        ELSE Return(s, NumberValue(number))

(***************************************************************************)
(* parseTrue, parseFalse, parseNull (lines 314-336)                        *)
(***************************************************************************)
\* parseTrue trusting the 't' parseValue has seen
MutParseTrueNoCompare(s) == Return(Advance(s, 4), BooleanValue(TRUE))

parseTrue(s) ==
    IF Slice(s.input, s.pos, s.pos + 4) = TrueText
    THEN Return(Advance(s, 4), BooleanValue(TRUE))
    ELSE Throw(s, "ExpectedLiteral", s.pos)

parseFalse(s) ==
    IF Slice(s.input, s.pos, s.pos + 5) = FalseText
    THEN Return(Advance(s, 5), BooleanValue(FALSE))
    ELSE Throw(s, "ExpectedLiteral", s.pos)

parseNull(s) ==
    IF Slice(s.input, s.pos, s.pos + 4) = NullText
    THEN Return(Advance(s, 4), NullValue)
    ELSE Throw(s, "ExpectedLiteral", s.pos)

(***************************************************************************)
(* The statement at s.pc, and a whole call of parse() as the iteration of  *)
(* its steps.                                                              *)
(***************************************************************************)
Step(s) ==
    CASE s.pc = "ws" -> skipWhitespace(s)
      [] s.pc = "parse_check" -> parse_check(s)
      [] s.pc = "parse_trail" -> parse_trail(s)
      [] s.pc = "parse_end" -> parse_finish(s)
      [] s.pc = "value" -> parseValue_enter(s)
      [] s.pc = "value_switch" -> parseValue_switch(s)
      [] s.pc = "object" -> parseObject_open(s)
      [] s.pc = "obj_empty" -> parseObject_empty(s)
      [] s.pc = "obj_loop" -> parseObject_loop(s)
      [] s.pc = "obj_separator" -> parseObject_separator(s)
      [] s.pc = "obj_key" -> parseObject_key(s)
      [] s.pc = "obj_key_done" -> parseObject_afterKey(s)
      [] s.pc = "obj_colon" -> parseObject_colon(s)
      [] s.pc = "obj_store" -> parseObject_store(s)
      [] s.pc = "array" -> parseArray_open(s)
      [] s.pc = "arr_empty" -> parseArray_empty(s)
      [] s.pc = "arr_loop" -> parseArray_loop(s)
      [] s.pc = "arr_separator" -> parseArray_separator(s)
      [] s.pc = "arr_push" -> parseArray_push(s)
      [] s.pc = "string" -> parseString_open(s)
      [] s.pc = "str_loop" -> parseString_char(s)
      [] s.pc = "str_escape" -> parseString_escape(s)
      [] s.pc = "str_advance" -> parseString_advance(s)
      [] s.pc = "number" -> parseNumber_sign(s)
      [] s.pc = "num_int" -> parseNumber_integer(s)
      [] s.pc = "num_int_digits" -> parseNumber_integerDigits(s)
      [] s.pc = "num_frac" -> parseNumber_fraction(s)
      [] s.pc = "num_frac_digits" -> parseNumber_fractionDigits(s)
      [] s.pc = "num_exp" -> parseNumber_exponent(s)
      [] s.pc = "num_exp_sign" -> parseNumber_exponentSign(s)
      [] s.pc = "num_exp_check" -> parseNumber_exponentCheck(s)
      [] s.pc = "num_exp_digits" -> parseNumber_exponentDigits(s)
      [] s.pc = "num_convert" -> parseNumber_convert(s)
      [] s.pc = "true" -> parseTrue(s)
      [] s.pc = "false" -> parseFalse(s)
      [] s.pc = "null" -> parseNull(s)

RECURSIVE RunToEnd(_)
RunToEnd(s) == IF s.pc = "done" THEN s ELSE RunToEnd(Step(s))

\* new JSONParser(text).parse() (parseJSON, lines 354-357): what the caller gets
parseJSON(text) == RunToEnd(parse_enter(Constructed(text))).outcomes[1]

(***************************************************************************)
(* The input texts.  Every one is a string a caller can pass to the        *)
(* constructor.                                                            *)
(***************************************************************************)
MaxLen == 3
MaxNumLen == 4
MaxHex == 5
MaxEntries == 2
MaxCalls == 2

Strs(alphabet, n) == UNION {[1..k -> alphabet] : k \in 0..n}

\* every string of at most MaxLen of the characters [ ] { } , " \ space 1 LF
ShortAlphabet ==
    {LBracket, RBracket, LBrace, RBrace, Comma, Quote, Backslash, Space, Zero + 1, LineFeed}
ShortInputs == Strs(ShortAlphabet, MaxLen)

\* number texts: at most MaxNumLen of - 0 1 . e, then nothing, e308 or 9e307
NumberAlphabet == {Minus, Zero, Zero + 1, Dot, LowerE}
NumberSuffixes == { <<>>, <<101, 51, 48, 56>>, <<57, 101, 51, 48, 55>> }
NumberInputs == {p \o x : p \in Strs(NumberAlphabet, MaxNumLen), x \in NumberSuffixes}

\* "\u followed by at most MaxHex of the characters 1 F g "
UnicodeAlphabet == {Zero + 1, UpperF, LowerF + 1, Quote}
UnicodeInputs == {<<Quote, Backslash, LowerU>> \o x : x \in Strs(UnicodeAlphabet, MaxHex)}

\* the keys of the object texts
\*   "a"
\*   "\u0061"
\*   "__proto__"
KeyTexts ==
    { <<34, 97, 34>>,
      <<34, 92, 117, 48, 48, 54, 49, 34>>,
      <<34, 95, 95, 112, 114, 111, 116, 111, 95, 95, 34>> }
\* the member values of the object texts
\*   1
\*   null
MemberValueTexts ==
    { <<49>>,
      <<110, 117, 108, 108>> }

\* k:v,k:v,... with n members
RECURSIVE MemberLists(_)
MemberLists(n) ==
    IF n = 1
    THEN {k \o <<Colon>> \o v : k \in KeyTexts, v \in MemberValueTexts}
    ELSE {m \o <<Comma>> \o k \o <<Colon>> \o v :
            m \in MemberLists(n - 1), k \in KeyTexts, v \in MemberValueTexts}

\* objects of 1 .. MaxEntries members
ObjectInputs ==
    UNION {{<<LBrace>> \o m \o <<RBrace>> : m \in MemberLists(n)} : n \in 1..MaxEntries}

\* objects that use the prototype accessor, array-index keys and nesting
\*   {"__proto__":{"a":1},"b":2}
\*   {"__proto__":null,"__proto__":1}
\*   {"__proto__":[],"a":"x"}
\*   {"2":1,"b":0,"1":2}
\*   [{"a":1,"a":2}]
ObjectDocs ==
    { <<123, 34, 95, 95, 112, 114, 111, 116, 111, 95, 95, 34, 58, 123, 34, 97, 34, 58, 49, 125, 44, 34, 98, 34, 58, 50, 125>>,
      <<123, 34, 95, 95, 112, 114, 111, 116, 111, 95, 95, 34, 58, 110, 117, 108, 108, 44, 34, 95, 95, 112, 114, 111, 116, 111, 95, 95, 34, 58, 49, 125>>,
      <<123, 34, 95, 95, 112, 114, 111, 116, 111, 95, 95, 34, 58, 91, 93, 44, 34, 97, 34, 58, 34, 120, 34, 125>>,
      <<123, 34, 50, 34, 58, 49, 44, 34, 98, 34, 58, 48, 44, 34, 49, 34, 58, 50, 125>>,
      <<91, 123, 34, 97, 34, 58, 49, 44, 34, 97, 34, 58, 50, 125, 93>> }

\* documents whose prefixes and one-character changes are inputs too
\*   {"a":1,"b":[true,null]}
\*   [1, {"k":"x\n"} ]
\*    {"a" : false } 
\*   [-1.5E+2,0]
\*   "\u00e9"
\*   [[],{}]
\*   "a<TAB> "
\*   true
CoreDocs ==
    { <<123, 34, 97, 34, 58, 49, 44, 34, 98, 34, 58, 91, 116, 114, 117, 101, 44, 110, 117, 108, 108, 93, 125>>,
      <<91, 49, 44, 32, 123, 34, 107, 34, 58, 34, 120, 92, 110, 34, 125, 32, 93>>,
      <<32, 123, 34, 97, 34, 32, 58, 32, 102, 97, 108, 115, 101, 32, 125, 32>>,
      <<91, 45, 49, 46, 53, 69, 43, 50, 44, 48, 93>>,
      <<34, 92, 117, 48, 48, 101, 57, 34>>,
      <<91, 91, 93, 44, 123, 125, 93>>,
      <<34, 97, 9, 32, 34>>,
      <<116, 114, 117, 101>> }

\* x space } ] , 0 " :
ChangeChars == {120, Space, RBrace, RBracket, Comma, Zero, Quote, Colon}

Prefixes(docs) == UNION {{SubSeq(d, 1, k) : k \in 0..Len(d)} : d \in docs}
Replaced(docs) ==
    UNION {{[d EXCEPT ![i] = c] : i \in 1..Len(d), c \in ChangeChars} : d \in docs}
Extended(docs) == {d \o <<c>> : d \in docs, c \in ChangeChars}

CoreInputs == Prefixes(CoreDocs) \cup Replaced(CoreDocs) \cup Extended(Prefixes(CoreDocs))

Inputs ==
    ShortInputs \cup NumberInputs \cup UnicodeInputs \cup ObjectInputs \cup ObjectDocs
        \cup CoreInputs

(***************************************************************************)
(* The specification.                                                      *)
(***************************************************************************)
State ==
    [input |-> input, length |-> length, pos |-> pos, pc |-> pc, calls |-> calls,
     frames |-> frames, result |-> result, start |-> start, retval |-> retval,
     error |-> error, outcomes |-> outcomes]

Becomes(t) ==
    /\ input' = t.input
    /\ length' = t.length
    /\ pos' = t.pos
    /\ pc' = t.pc
    /\ calls' = t.calls
    /\ frames' = t.frames
    /\ result' = t.result
    /\ start' = t.start
    /\ retval' = t.retval
    /\ error' = t.error
    /\ outcomes' = t.outcomes

\* the state after new JSONParser(text)
Init ==
    \E text \in Inputs :
        /\ input = text
        /\ length = Len(text)
        /\ pos = 0
        /\ pc = "idle"
        /\ calls = <<>>
        /\ frames = <<>>
        /\ result = <<>>
        /\ start = 0
        /\ retval = UndefinedValue
        /\ error = NoError
        /\ outcomes = <<>>

\* A call of parse() on the parser, the first or a later one.  The other
\* actions are the statements of the call in progress, each enabled where
\* pc stands, as in Step.
Parse ==
    /\ pc \in {"idle", "done"}
    /\ Len(outcomes) < MaxCalls
    /\ Becomes(parse_enter(State))

SkipWhitespace == pc = "ws" /\ Becomes(skipWhitespace(State))
ParseCheck == pc = "parse_check" /\ Becomes(parse_check(State))
ParseTrail == pc = "parse_trail" /\ Becomes(parse_trail(State))
ParseFinish == pc = "parse_end" /\ Becomes(parse_finish(State))
ParseValueEnter == pc = "value" /\ Becomes(parseValue_enter(State))
ParseValueSwitch == pc = "value_switch" /\ Becomes(parseValue_switch(State))
ParseObjectOpen == pc = "object" /\ Becomes(parseObject_open(State))
ParseObjectEmpty == pc = "obj_empty" /\ Becomes(parseObject_empty(State))
ParseObjectLoop == pc = "obj_loop" /\ Becomes(parseObject_loop(State))
ParseObjectSeparator == pc = "obj_separator" /\ Becomes(parseObject_separator(State))
ParseObjectKey == pc = "obj_key" /\ Becomes(parseObject_key(State))
ParseObjectAfterKey == pc = "obj_key_done" /\ Becomes(parseObject_afterKey(State))
ParseObjectColon == pc = "obj_colon" /\ Becomes(parseObject_colon(State))
ParseObjectStore == pc = "obj_store" /\ Becomes(parseObject_store(State))
ParseArrayOpen == pc = "array" /\ Becomes(parseArray_open(State))
ParseArrayEmpty == pc = "arr_empty" /\ Becomes(parseArray_empty(State))
ParseArrayLoop == pc = "arr_loop" /\ Becomes(parseArray_loop(State))
ParseArraySeparator == pc = "arr_separator" /\ Becomes(parseArray_separator(State))
ParseArrayPush == pc = "arr_push" /\ Becomes(parseArray_push(State))
ParseStringOpen == pc = "string" /\ Becomes(parseString_open(State))
ParseStringChar == pc = "str_loop" /\ Becomes(parseString_char(State))
ParseStringEscape == pc = "str_escape" /\ Becomes(parseString_escape(State))
ParseStringAdvance == pc = "str_advance" /\ Becomes(parseString_advance(State))
ParseNumberSign == pc = "number" /\ Becomes(parseNumber_sign(State))
ParseNumberInteger == pc = "num_int" /\ Becomes(parseNumber_integer(State))
ParseNumberIntegerDigits == pc = "num_int_digits" /\ Becomes(parseNumber_integerDigits(State))
ParseNumberFraction == pc = "num_frac" /\ Becomes(parseNumber_fraction(State))
ParseNumberFractionDigits == pc = "num_frac_digits" /\ Becomes(parseNumber_fractionDigits(State))
ParseNumberExponent == pc = "num_exp" /\ Becomes(parseNumber_exponent(State))
ParseNumberExponentSign == pc = "num_exp_sign" /\ Becomes(parseNumber_exponentSign(State))
ParseNumberExponentCheck == pc = "num_exp_check" /\ Becomes(parseNumber_exponentCheck(State))
ParseNumberExponentDigits == pc = "num_exp_digits" /\ Becomes(parseNumber_exponentDigits(State))
ParseNumberConvert == pc = "num_convert" /\ Becomes(parseNumber_convert(State))
ParseTrue == pc = "true" /\ Becomes(parseTrue(State))
ParseFalse == pc = "false" /\ Becomes(parseFalse(State))
ParseNull == pc = "null" /\ Becomes(parseNull(State))

\* the next statement of the call in progress
Execute ==
    \/ SkipWhitespace
    \/ ParseCheck
    \/ ParseTrail
    \/ ParseFinish
    \/ ParseValueEnter
    \/ ParseValueSwitch
    \/ ParseObjectOpen
    \/ ParseObjectEmpty
    \/ ParseObjectLoop
    \/ ParseObjectSeparator
    \/ ParseObjectKey
    \/ ParseObjectAfterKey
    \/ ParseObjectColon
    \/ ParseObjectStore
    \/ ParseArrayOpen
    \/ ParseArrayEmpty
    \/ ParseArrayLoop
    \/ ParseArraySeparator
    \/ ParseArrayPush
    \/ ParseStringOpen
    \/ ParseStringChar
    \/ ParseStringEscape
    \/ ParseStringAdvance
    \/ ParseNumberSign
    \/ ParseNumberInteger
    \/ ParseNumberIntegerDigits
    \/ ParseNumberFraction
    \/ ParseNumberFractionDigits
    \/ ParseNumberExponent
    \/ ParseNumberExponentSign
    \/ ParseNumberExponentCheck
    \/ ParseNumberExponentDigits
    \/ ParseNumberConvert
    \/ ParseTrue
    \/ ParseFalse
    \/ ParseNull

Next == Parse \/ Execute

Spec == Init /\ [][Next]_vars

(***************************************************************************)
(* The grammar the parser is specified against, as a recognizer that reads *)
(* one character at a time: RFC 7159, with the raw tab the specification   *)
(* allows inside strings.  It is written from the grammar, not from the    *)
(* parser, and is what "the first character that violates the grammar"     *)
(* and "whitespace, one complete value, whitespace" mean below.            *)
(*   mode  : what the recognizer is inside of or waits for                 *)
(*   stack : the open containers, innermost first ("o" or "a")             *)
(*   n     : characters of the keyword or hex digits of the escape read    *)
(*   word  : the keyword being read                                        *)
(*   key   : whether the string being read is an object key                *)
(*   tok   : the index at which the keyword or number being read began     *)
(***************************************************************************)
GStart == [mode |-> "value", stack |-> <<>>, n |-> 0, word |-> <<>>, key |-> FALSE, tok |-> 0]

GStuck(st) == [st EXCEPT !.mode = "stuck"]
GMode(st, m) == [st EXCEPT !.mode = m]
GPush(st, c, m) == [st EXCEPT !.mode = m, !.stack = <<c>> \o @]
GPop(st) == [st EXCEPT !.mode = "after", !.stack = Tail(@)]

GIsWs(c) == c \in {32, 9, 10, 13}
GIsDigit(c) == c \in 48..57
GIsHex(c) == c \in (48..57) \cup (65..70) \cup (97..102)

\* after a complete value: whitespace, or what the innermost container allows
GAfter(st, c) ==
    IF GIsWs(c) THEN GMode(st, "after")
    ELSE IF st.stack = <<>> THEN GStuck(st)
    ELSE IF Head(st.stack) = "o"
    THEN IF c = 44 THEN GMode(st, "obj_key")
         ELSE IF c = 125 THEN GPop(st)
         ELSE GStuck(st)
    ELSE IF c = 44 THEN GMode(st, "value")
         ELSE IF c = 93 THEN GPop(st)
         ELSE GStuck(st)

\* where a value has to begin
GValue(st, c, i) ==
    IF GIsWs(c) THEN st
    ELSE IF c = 123 THEN GPush(st, "o", "obj_first")
    ELSE IF c = 91 THEN GPush(st, "a", "arr_first")
    ELSE IF c = 34 THEN [st EXCEPT !.mode = "str", !.key = FALSE]
    ELSE IF c = 116 THEN [st EXCEPT !.mode = "lit", !.word = <<116, 114, 117, 101>>, !.n = 1, !.tok = i]
    ELSE IF c = 102 THEN [st EXCEPT !.mode = "lit", !.word = <<102, 97, 108, 115, 101>>, !.n = 1, !.tok = i]
    ELSE IF c = 110 THEN [st EXCEPT !.mode = "lit", !.word = <<110, 117, 108, 108>>, !.n = 1, !.tok = i]
    ELSE IF c = 45 THEN [st EXCEPT !.mode = "num_minus", !.tok = i]
    ELSE IF c = 48 THEN [st EXCEPT !.mode = "num_zero", !.tok = i]
    ELSE IF c \in 49..57 THEN [st EXCEPT !.mode = "num_int", !.tok = i]
    ELSE GStuck(st)

GRead(st, c, i) ==
    CASE st.mode = "value" -> GValue(st, c, i)
      [] st.mode = "arr_first" -> IF c = 93 THEN GPop(st) ELSE GValue(st, c, i)
      [] st.mode = "obj_first" ->
            IF GIsWs(c) THEN st
            ELSE IF c = 125 THEN GPop(st)
            ELSE IF c = 34 THEN [st EXCEPT !.mode = "str", !.key = TRUE]
            ELSE GStuck(st)
      [] st.mode = "obj_key" ->
            IF GIsWs(c) THEN st
            ELSE IF c = 34 THEN [st EXCEPT !.mode = "str", !.key = TRUE]
            ELSE GStuck(st)
      [] st.mode = "colon" ->
            IF GIsWs(c) THEN st
            ELSE IF c = 58 THEN GMode(st, "value")
            ELSE GStuck(st)
      [] st.mode = "str" ->
            IF c = 34 THEN GMode(st, IF st.key THEN "colon" ELSE "after")
            ELSE IF c = 92 THEN GMode(st, "esc")
            ELSE IF c < 32 /\ c # 9 THEN GStuck(st)
            ELSE st
      [] st.mode = "esc" ->
            IF c \in {34, 92, 47, 98, 102, 110, 114, 116} THEN GMode(st, "str")
            ELSE IF c = 117 THEN [st EXCEPT !.mode = "hex", !.n = 0]
            ELSE GStuck(st)
      [] st.mode = "hex" ->
            IF ~GIsHex(c) THEN GStuck(st)
            ELSE IF st.n = 3 THEN GMode(st, "str")
            ELSE [st EXCEPT !.n = @ + 1]
      [] st.mode = "lit" ->
            IF c # st.word[st.n + 1] THEN GStuck(st)
            ELSE IF st.n + 1 = Len(st.word) THEN GMode(st, "after")
            ELSE [st EXCEPT !.n = @ + 1]
      [] st.mode = "num_minus" ->
            IF c = 48 THEN GMode(st, "num_zero")
            ELSE IF c \in 49..57 THEN GMode(st, "num_int")
            ELSE GStuck(st)
      [] st.mode = "num_zero" ->
            IF c = 46 THEN GMode(st, "num_dot")
            ELSE IF c \in {101, 69} THEN GMode(st, "num_e")
            ELSE IF GIsDigit(c) THEN GStuck(st)
            ELSE GAfter(st, c)
      [] st.mode = "num_int" ->
            IF GIsDigit(c) THEN st
            ELSE IF c = 46 THEN GMode(st, "num_dot")
            ELSE IF c \in {101, 69} THEN GMode(st, "num_e")
            ELSE GAfter(st, c)
      [] st.mode = "num_dot" -> IF GIsDigit(c) THEN GMode(st, "num_frac") ELSE GStuck(st)
      [] st.mode = "num_frac" ->
            IF GIsDigit(c) THEN st
            ELSE IF c \in {101, 69} THEN GMode(st, "num_e")
            ELSE GAfter(st, c)
      [] st.mode = "num_e" ->
            IF c \in {43, 45} THEN GMode(st, "num_esign")
            ELSE IF GIsDigit(c) THEN GMode(st, "num_exp")
            ELSE GStuck(st)
      [] st.mode = "num_esign" -> IF GIsDigit(c) THEN GMode(st, "num_exp") ELSE GStuck(st)
      [] st.mode = "num_exp" -> IF GIsDigit(c) THEN st ELSE GAfter(st, c)
      [] st.mode = "after" -> GAfter(st, c)

\* Reads w from index i on.  at is the index of the first character the
\* grammar does not allow, or Len(w) when every character is allowed; st is
\* the recognizer's state before that character (or at the end).
RECURSIVE GScan(_, _, _)
GScan(st, w, i) ==
    IF i >= Len(w) THEN [st |-> st, at |-> Len(w), stuck |-> FALSE]
    ELSE LET nx == GRead(st, w[i + 1], i)
         IN  IF nx.mode = "stuck"
             THEN [st |-> st, at |-> i, stuck |-> TRUE]
             ELSE GScan(nx, w, i + 1)

GNumberEnd == {"num_zero", "num_int", "num_frac", "num_exp"}

\* w is whitespace, one complete value, whitespace
GValid(w) ==
    LET r == GScan(GStart, w, 0)
    IN  ~r.stuck /\ r.st.stack = <<>> /\ r.st.mode \in GNumberEnd \cup {"after"}

\* the index of the first character of a malformed w that violates the
\* grammar, Len(w) when w ends too early
FirstViolation(w) == GScan(GStart, w, 0).at

Done == pc = "done"
Last == outcomes[Len(outcomes)]
Failed == Done /\ ~Last.ok
Succeeded == Done /\ Last.ok

FirstNonWs(w, from) ==
    LET rest == {i \in from..(Len(w) - 1) : ~GIsWs(w[i + 1])}
    IN  IF rest = {} THEN Len(w) ELSE CHOOSE i \in rest : \A j \in rest : i <= j

(***************************************************************************)
(* C1.  parse() returns a value only if the whole input is consumed: the   *)
(* input is whitespace, one complete JSON value, whitespace, and the       *)
(* cursor is at length on return.  When the first complete top-level value *)
(* is followed by a character that is not whitespace, parse() returns no   *)
(* value and fails with TrailingInput at the index of the first such       *)
(* character; when only whitespace follows, it returns that value.         *)
(***************************************************************************)
C1_AllOrNothing ==
    /\ Succeeded => pos = length /\ GValid(input) /\ error = NoError
    /\ Failed => Last.value = UndefinedValue /\ retval = UndefinedValue
    /\ pc = "parse_trail" =>
          LET t == RunToEnd(State)
              o == t.outcomes[Len(t.outcomes)]
              q == FirstNonWs(input, pos)
          IN  IF q < length
              THEN ~o.ok /\ o.value = UndefinedValue
                     /\ o.error = [kind |-> "TrailingInput", position |-> q]
              ELSE o.ok /\ o.value = retval /\ t.pos = length

\* a value has been parsed and input that is not whitespace follows it
C1_Witness == Failed /\ error.kind = "TrailingInput" /\ error.position > 0 /\ pos < length

(***************************************************************************)
(* C2.  At every step of parse() the cursor satisfies 0 <= pos <= length,  *)
(* and every error raised carries a position within 0 .. length.           *)
(***************************************************************************)
C2_CursorInBounds ==
    /\ pos >= 0
    /\ pos <= length
    /\ error.position >= 0
    /\ error.position <= length
    /\ \A i \in 1..Len(outcomes) :
          outcomes[i].error.position >= 0 /\ outcomes[i].error.position <= length

\* the cursor has reached the end of the input by skipping the four hex
\* digits of an escape that are the input's last characters
C2_Witness ==
    /\ pc = "str_loop"
    /\ pos = length
    /\ pos >= 6
    /\ input[pos - 5] = Backslash
    /\ input[pos - 4] = LowerU

(***************************************************************************)
(* C3 as stated.   Whenever parse() fails on a malformed input, the        *)
(* position it reports is the index of the first character that violates   *)
(* the grammar, or length when the input ends too early, whatever the      *)
(* kind of the error.                                                      *)
(***************************************************************************)
C3_PositionIsFirstViolation ==
    (Failed /\ ~GValid(input)) => error.position = FirstViolation(input)

(***************************************************************************)
(* C3 as amended.  The position reported is the index of the first         *)
(* character that violates the grammar (length when the input ends too     *)
(* early) for every kind of error but three, which are anchored at the     *)
(* token they are about and never lie beyond that character:               *)
(* ExpectedLiteral reports the index at which the keyword begins,          *)
(* InvalidUnicodeEscape the index of the 'u' of the escape, and            *)
(* NumberOverflow, raised for a number that is well formed, the index at   *)
(* which that number begins.                                               *)
(***************************************************************************)
C3_PositionAnchored ==
    Failed =>
        LET r == GScan(GStart, input, 0)
            before == GScan(GStart, SubSeq(input, 1, error.position), 0)
        IN  IF error.kind = "NumberOverflow"
            THEN /\ error.position < r.at
                 /\ ~before.stuck
                 /\ before.st.mode \in {"value", "arr_first"}
                 /\ input[error.position + 1] \in {45} \cup (48..57)
            ELSE /\ ~GValid(input)
                 /\ error.position <= r.at
                 /\ IF error.kind = "ExpectedLiteral"
                    THEN r.st.mode = "lit" /\ error.position = r.st.tok
                    ELSE IF error.kind = "InvalidUnicodeEscape"
                    THEN r.st.mode = "hex" /\ error.position = r.at - r.st.n - 1
                    ELSE error.position = r.at

\* a keyword that goes wrong at its fourth character is reported at its first
C3_Witness ==
    /\ Failed
    /\ error.kind = "ExpectedLiteral"
    /\ FirstViolation(input) = error.position + 3
    /\ FirstViolation(input) < length

(***************************************************************************)
(* C4.  Whenever the input is exhausted inside an object at a point where  *)
(* its closing '}' could come next (right after '{', or after a member,    *)
(* with or without whitespace behind it), parse() fails with               *)
(* UnterminatedObject at position length; in the same way exhaustion       *)
(* inside an array where ']' could come next fails with UnterminatedArray. *)
(***************************************************************************)
GClosable(st) ==
    /\ st.stack # <<>>
    /\ st.mode \in GNumberEnd \cup {"after", "obj_first", "arr_first"}

IsDigits(w) == Len(w) >= 1 /\ \A i \in 1..Len(w) : GIsDigit(w[i])
IsIntegerPart(w) == w = <<48>> \/ (IsDigits(w) /\ w[1] # 48)
IsFractionOpt(w) == w = <<>> \/ (w[1] = 46 /\ IsDigits(Tail(w)))
IsExponentOpt(w) ==
    \/ w = <<>>
    \/ /\ w[1] \in {101, 69}
       /\ \/ IsDigits(Tail(w))
          \/ (Len(w) >= 2 /\ w[2] \in {43, 45} /\ IsDigits(SubSeq(w, 3, Len(w))))
IsUnsignedNumber(w) ==
    \E a \in 1..Len(w) : \E b \in a..Len(w) :
        /\ IsIntegerPart(SubSeq(w, 1, a))
        /\ IsFractionOpt(SubSeq(w, a + 1, b))
        /\ IsExponentOpt(SubSeq(w, b + 1, Len(w)))
IsNumberText(w) ==
    IF w # <<>> /\ w[1] = 45 THEN IsUnsignedNumber(Tail(w)) ELSE IsUnsignedNumber(w)

MatchLengths(w) == {n \in 1..Len(w) : IsNumberText(SubSeq(w, 1, n))}
StartsWithNumber(w) == MatchLengths(w) # {}
LongestMatch(w) ==
    LET m == MatchLengths(w) IN CHOOSE n \in m : \A k \in m : k <= n

\* The longest match is followed by a character that opens a part of a
\* number and does not complete it: a digit after the integer part 0, a '.'
\* not followed by a digit, an 'e' or 'E' whose optional sign is not
\* followed by a digit.
BrokenContinuation(w) ==
    LET n == LongestMatch(w)
        m == SubSeq(w, 1, n)
        next == CharAt(w, n)
        plain == \A i \in 1..n : m[i] \notin {46, 101, 69}
        noExp == \A i \in 1..n : m[i] \notin {101, 69}
    IN  \/ (m \in {<<48>>, <<45, 48>>} /\ next \in 48..57)
        \/ (plain /\ next = 46)
        \/ (noExp /\ next \in {101, 69})

\* the call of the routine at s.pc, run until it returns or throws
RECURSIVE RunRoutineFrom(_, _)
RunRoutineFrom(s, depth) ==
    IF s.pc = "done" \/ Len(s.calls) < depth THEN s ELSE RunRoutineFrom(Step(s), depth)

RunRoutine(s) == RunRoutineFrom(s, Len(s.calls))

\* parseNumber's verdict on the text at the cursor, overflow set aside: the
\* text passes the grammar checks when the routine returns or when the only
\* complaint is that the converted value is not finite
NumberRun == RunRoutine(State)
NumberPasses == NumberRun.pc # "done" \/ NumberRun.error.kind = "NumberOverflow"
NumberText == SubSeq(input, pos + 1, length)

C6_LastWriteWins ==
    pc = "obj_store" =>
        LET old == Frame(State).obj
            key == Frame(State).key
            new == Frame(Step(State)).obj
        IN  /\ OwnKeys(new) = OwnKeys(old) \cup {key}
            /\ Len(new.val.own) = Cardinality(OwnKeys(new))
            /\ OwnGet(new, key) = retval
            /\ \A k \in OwnKeys(old) \ {key} : OwnGet(new, k) = OwnGet(old, k)

(***************************************************************************)
(* C7.  In a string, a backslash followed by 'u' and four characters of    *)
(* [0-9a-fA-F] appends the one UTF-16 code unit they spell to the result   *)
(* and moves the cursor past all six characters, wherever the escape sits  *)
(* in the input; in every other case where 'u' follows a backslash parsing *)
(* fails with InvalidUnicodeEscape.                                        *)
(***************************************************************************)
HexDigits == <<48, 49, 50, 51, 52, 53, 54, 55, 56, 57, 97, 98, 99, 100, 101, 102>>
UpperHexDigits == <<48, 49, 50, 51, 52, 53, 54, 55, 56, 57, 65, 66, 67, 68, 69, 70>>
HexWeight(c) ==
    (CHOOSE i \in 1..16 : HexDigits[i] = c \/ UpperHexDigits[i] = c) - 1
SpelledCodeUnit(h) ==
    4096 * HexWeight(h[1]) + 256 * HexWeight(h[2]) + 16 * HexWeight(h[3]) + HexWeight(h[4])

C7_UnicodeEscape ==
    (pc = "str_escape" /\ pos < length /\ input[pos + 1] = LowerU) =>
        LET h == SubSeq(input, pos + 2, pos + 5)
            four == pos + 5 <= length /\ \A i \in 1..4 : GIsHex(h[i])
            t == Step(State)
        IN  IF four
            THEN /\ t.pc = "str_advance"
                 /\ t.result = Append(result, SpelledCodeUnit(h))
                 /\ SpelledCodeUnit(h) \in 0..65535
                 /\ Step(t).pc = "str_loop"
                 /\ Step(t).pos = pos + 5
                 /\ Step(t).result = t.result
            ELSE t.pc = "done" /\ t.error.kind = "InvalidUnicodeEscape"

\* an escape whose four hex digits are the last characters of the input has
\* been decoded
C7_Witness ==
    /\ pc = "str_loop"
    /\ pos = length
    /\ pos >= 6
    /\ input[pos - 5] = Backslash
    /\ input[pos - 4] = LowerU
    /\ result # <<>>
    /\ result[Len(result)] = SpelledCodeUnit(SubSeq(input, pos - 3, pos))

(***************************************************************************)
(* C8.  Whitespace insensitivity: for every input parse() accepts,         *)
(* inserting a run of space, tab, newline or carriage return anywhere      *)
(* outside a token (before or after a structural character, before or      *)
(* after a value, at the start or the end) gives an input parse() accepts  *)
(* with an equal value.  Inside a string whitespace is never skipped: the  *)
(* character goes into the result unchanged and the cursor moves past it   *)
(* alone (or, for a raw newline or carriage return, the string is          *)
(* rejected).                                                              *)
(***************************************************************************)
MaxRun == 1

WsRuns == Strs({32, 9, 10, 13}, MaxRun) \ {<<>>}

Inserted(w, p, run) == SubSeq(w, 1, p) \o run \o SubSeq(w, p + 1, Len(w))

GNumberModes == GNumberEnd \cup {"num_minus", "num_dot", "num_e", "num_esign"}

\* offset p of the well-formed text w lies inside a string, a keyword or a number
InsideToken(w, p) ==
    LET st == GScan(GStart, SubSeq(w, 1, p), 0).st
    IN  \/ st.mode \in {"str", "esc", "hex", "lit", "num_minus", "num_dot", "num_e", "num_esign"}
        \/ /\ st.mode \in GNumberEnd
           /\ p < Len(w)
           /\ GRead(st, w[p + 1], p).mode \in GNumberModes

C8_WhitespaceInsensitive ==
    /\ (Succeeded /\ Len(outcomes) = 1) =>
          \A p \in 0..length :
              ~InsideToken(input, p) =>
                  \A run \in WsRuns :
                      LET o == parseJSON(Inserted(input, p, run))
                      IN  o.ok /\ o.value = Last.value
    /\ (pc = "str_loop" /\ pos < length /\ GIsWs(input[pos + 1])) =>
          LET t == Step(State)
          IN  \/ t.pc = "done" /\ input[pos + 1] \in {10, 13}
              \/ /\ t.result = Append(result, input[pos + 1])
                 /\ Step(t).pos = pos + 1
                 /\ Step(t).result = t.result

\* an accepted object with a nested array, and a string that holds a raw
\* tab and a space
C8_Witness ==
    /\ Succeeded
    /\ \/ /\ Last.value.kind = "object"
          /\ \E i \in 1..Len(Last.value.val.own) : Last.value.val.own[i].value.kind = "array"
       \/ /\ Last.value.kind = "string"
          /\ \E i \in 1..Len(Last.value.val) : Last.value.val[i] = Tab
          /\ \E i \in 1..Len(Last.value.val) : Last.value.val[i] = Space

(***************************************************************************)
(* C9.  Cursor state is not reused across calls: every call of parse() on  *)
(* a parser starts from cursor 0 and gives the caller what the first call  *)
(* gave (the same value, or the same kind of error at the same position),  *)
(* whether the call before it returned or failed part-way through.         *)
(***************************************************************************)
C9_CallsAgree ==
    /\ \A i \in 1..Len(outcomes) : outcomes[i] = outcomes[1]
    /\ (pc = "ws" /\ calls = <<"parse_check">>) => pos <= FirstNonWs(input, 0)

\* a second call has ended after a first one that failed part-way through
C9_Witness ==
    /\ Done
    /\ Len(outcomes) = 2
    /\ ~outcomes[1].ok
    /\ outcomes[1].error.position > 0
    /\ outcomes[1].error.position < length

(***************************************************************************)
(* C10.  Every call of parse() terminates, returning a value or raising an *)
(* error: within a call the cursor never retreats, and every statement     *)
(* that leaves the cursor where it is leads to a statement of lower rank,  *)
(* so that control cannot come back to any statement (the head of a loop   *)
(* in parseObject, parseArray, parseString, parseNumber or skipWhitespace, *)
(* or parseValue entered from a container) before the cursor has advanced; *)
(* and a call in progress always has a next statement that changes the     *)
(* state.  The pair (length - pos, Rank) then falls with every step and    *)
(* cannot fall forever.                                                    *)
(***************************************************************************)
Rank ==
    CASE pc = "ws" ->
            (CASE Head(calls) = "parse_check" -> 60
               [] Head(calls) = "obj_empty" -> 58
               [] Head(calls) = "obj_key" -> 55
               [] Head(calls) = "arr_empty" -> 53
               [] Head(calls) = "value_switch" -> 49
               [] Head(calls) \in {"parse_end", "obj_colon"} -> 29
               [] Head(calls) \in {"obj_separator", "arr_separator"} -> 28)
      [] pc = "parse_check" -> 59
      [] pc = "obj_empty" -> 57
      [] pc = "obj_loop" -> IF Head(frames).first THEN 56 ELSE 29
      [] pc = "obj_key" -> 54
      [] pc = "arr_empty" -> 52
      [] pc = "arr_loop" -> IF Head(frames).first THEN 51 ELSE 29
      [] pc = "value" -> 50
      [] pc = "value_switch" -> 48
      [] pc \in {"object", "array", "string", "true", "false", "null", "number"} -> 47
      [] pc = "num_int" -> 46
      [] pc = "num_int_digits" -> 45
      [] pc = "num_frac" -> 44
      [] pc = "num_frac_digits" -> 43
      [] pc = "num_exp" -> 42
      [] pc = "num_exp_sign" -> 41
      [] pc = "num_exp_check" -> 40
      [] pc = "num_exp_digits" -> 39
      [] pc = "num_convert" -> 38
      [] pc \in {"str_loop", "str_escape"} -> 37
      [] pc = "str_advance" -> 36
      [] pc \in {"parse_trail", "obj_store", "arr_push", "obj_key_done"} -> 30
      [] pc \in {"parse_end", "obj_colon"} -> 28
      [] pc \in {"obj_separator", "arr_separator"} -> 27
      [] pc \in {"idle", "done"} -> 0

Running == pc \notin {"idle", "done"}

C10_Terminates ==
    /\ [][Running => (pos' > pos \/ (pos' = pos /\ Rank' < Rank))]_vars
    /\ [](Running => Step(State) # State)

\* an object's loop is at its head for the second time, a member further on
C10_Witness ==
    /\ pc = "obj_loop"
    /\ ~Head(frames).first
    /\ pos < length
    /\ Len(Head(frames).obj.val.own) >= 1

====
